---- MODULE Spec2Model ----
(***************************************************************************)
(* Model of mqtt-cli.py: the module-level configuration load/creation, the  *)
(* MqttClient handle and its five commands, and MqttCli.run's dispatch.     *)
(*                                                                         *)
(* Python strings and the text of the configuration file are sequences of  *)
(* one-character strings, so that json.dump / json.load, int() and the     *)
(* byte-level effect of open(..., 'w') followed by a write are computed,   *)
(* not assumed.  The alphabet of the texts in this model is: letters,      *)
(* digits, space and the punctuation  { } " : , . - _ / \ .                  *)
(***************************************************************************)
EXTENDS Integers, Sequences, FiniteSets, TLC

(***************************************************************************)
(* Python values that occur in the configuration: str, int, bool, None.    *)
(* Every value carries all four fields so that any two can be compared.    *)
(***************************************************************************)
PyStr(s) == [t |-> "str", s |-> s, n |-> 0, b |-> FALSE]
PyInt(n) == [t |-> "int", s |-> <<>>, n |-> n, b |-> FALSE]
PyBool(b) == [t |-> "bool", s |-> <<>>, n |-> 0, b |-> b]
PyNone == [t |-> "none", s |-> <<>>, n |-> 0, b |-> FALSE]

\* Python truth value of a configuration value (the `if a and b` of line 56).
Truthy(v) ==
    CASE v.t = "str" -> v.s # <<>>
      [] v.t = "int" -> v.n # 0
      [] v.t = "bool" -> v.b
      [] OTHER -> FALSE

(***************************************************************************)
(* A Python dict with string keys: a sequence of key/value items in        *)
(* insertion order (the order json.dump writes them in).                   *)
(***************************************************************************)
DictKeys(d) == {d[i].k : i \in 1..Len(d)}
DictHas(d, k) == k \in DictKeys(d)
DictGet(d, k) == d[CHOOSE i \in 1..Len(d) : d[i].k = k].v
\* d[k] = v: an existing key keeps its place, a new key is appended.
DictSet(d, k, v) ==
    IF DictHas(d, k)
    THEN [i \in 1..Len(d) |-> IF d[i].k = k THEN [k |-> k, v |-> v] ELSE d[i]]
    ELSE Append(d, [k |-> k, v |-> v])

K_server == <<"s", "e", "r", "v", "e", "r">>
K_port == <<"p", "o", "r", "t">>
K_client_id == <<"c", "l", "i", "e", "n", "t", "_", "i", "d">>
K_clean_session == <<"c", "l", "e", "a", "n", "_", "s", "e", "s", "s", "i", "o", "n">>
K_userdata == <<"u", "s", "e", "r", "d", "a", "t", "a">>
K_username == <<"u", "s", "e", "r", "n", "a", "m", "e">>
K_password == <<"p", "a", "s", "s", "w", "o", "r", "d">>
K_protocol == <<"p", "r", "o", "t", "o", "c", "o", "l">>
K_transport == <<"t", "r", "a", "n", "s", "p", "o", "r", "t">>

\* paho.mqtt.client.MQTTv311, the value line 36 stores under 'protocol'.
MQTTv311 == 4
\* The default broker port of line 30.
DefaultPort == 1883

S_localhost == <<"l", "o", "c", "a", "l", "h", "o", "s", "t">>
S_mqtt_cli == <<"m", "q", "t", "t", "-", "c", "l", "i">>
S_tcp == <<"t", "c", "p">>

Item(k, v) == [k |-> k, v |-> v]

\* The dict literal DEFAULT_CONFIG_SCHEMA of lines 28-38, in its key order.
DefaultConfig ==
    << Item(K_server, PyStr(S_localhost)),
       Item(K_port, PyInt(DefaultPort)),
       Item(K_client_id, PyStr(S_mqtt_cli)),
       Item(K_clean_session, PyBool(TRUE)),
       Item(K_userdata, PyNone),
       Item(K_username, PyNone),
       Item(K_password, PyNone),
       Item(K_protocol, PyInt(MQTTv311)),
       Item(K_transport, PyStr(S_tcp)) >>

(***************************************************************************)
(* json.dump (lines 43, 64, 71): the text Python's encoder writes for a    *)
(* dict of str/int/bool/None values, with its default separators.          *)
(***************************************************************************)
Digits == <<"0", "1", "2", "3", "4", "5", "6", "7", "8", "9">>
DigitSet == {Digits[i] : i \in 1..Len(Digits)}
DigitVal(c) == (CHOOSE i \in 1..Len(Digits) : Digits[i] = c) - 1

RECURSIVE NatToChars(_)
NatToChars(n) ==
    IF n < 10 THEN <<Digits[n + 1]>>
    ELSE Append(NatToChars(n \div 10), Digits[(n % 10) + 1])

IntToChars(n) == IF n < 0 THEN <<"-">> \o NatToChars(0 - n) ELSE NatToChars(n)

RECURSIVE JsonEscape(_)
JsonEscape(s) ==
    IF s = <<>> THEN <<>>
    ELSE (IF Head(s) \in {"\"", "\\"} THEN <<"\\", Head(s)>> ELSE <<Head(s)>>)
         \o JsonEscape(Tail(s))

JsonString(s) == <<"\"">> \o JsonEscape(s) \o <<"\"">>

JsonValue(v) ==
    CASE v.t = "str" -> JsonString(v.s)
      [] v.t = "int" -> IntToChars(v.n)
      [] v.t = "bool" -> IF v.b THEN <<"t", "r", "u", "e">>
                                ELSE <<"f", "a", "l", "s", "e">>
      [] OTHER -> <<"n", "u", "l", "l">>

RECURSIVE JsonItems(_)
JsonItems(d) ==
    IF d = <<>> THEN <<>>
    ELSE JsonString(d[1].k) \o <<":", " ">> \o JsonValue(d[1].v)
         \o (IF Len(d) > 1 THEN <<",", " ">> ELSE <<>>)
         \o JsonItems(Tail(d))

Dumps(d) == <<"{">> \o JsonItems(d) \o <<"}">>

(***************************************************************************)
(* json.load (line 47): the decoder, for the texts of this model: an       *)
(* object whose values are strings, integers, true, false or null.  Any    *)
(* other text (empty, cut short, followed by extra data) is a              *)
(* JSONDecodeError.                                                        *)
(***************************************************************************)
At(t, i) == IF i >= 1 /\ i <= Len(t) THEN t[i] ELSE ""

ValFail == [ok |-> FALSE, val |-> PyNone, next |-> 0]
ObjFail == [ok |-> FALSE, d |-> <<>>, next |-> 0]

RECURSIVE SkipWs(_, _)
SkipWs(t, i) == IF At(t, i) = " " THEN SkipWs(t, i + 1) ELSE i

\* The body of a string; i is the place after the opening quote.
RECURSIVE ScanString(_, _, _)
ScanString(t, i, acc) ==
    IF i > Len(t) THEN ValFail
    ELSE IF t[i] = "\"" THEN [ok |-> TRUE, val |-> PyStr(acc), next |-> i + 1]
    ELSE IF t[i] = "\\"
         THEN IF At(t, i + 1) \in {"\"", "\\", "/"}
              THEN ScanString(t, i + 2, Append(acc, t[i + 1]))
              ELSE ValFail
    ELSE ScanString(t, i + 1, Append(acc, t[i]))

RECURSIVE ScanDigits(_, _, _)
ScanDigits(t, i, acc) ==
    IF At(t, i) \in DigitSet
    THEN ScanDigits(t, i + 1, acc * 10 + DigitVal(t[i]))
    ELSE [n |-> acc, next |-> i]

ParseNumber(t, i) ==
    LET neg == At(t, i) = "-"
        j == IF neg THEN i + 1 ELSE i
    IN  IF At(t, j) \notin DigitSet THEN ValFail
        ELSE LET r == ScanDigits(t, j, 0)
             IN  [ok |-> TRUE, val |-> PyInt(IF neg THEN 0 - r.n ELSE r.n),
                  next |-> r.next]

MatchLit(t, i, lit) ==
    /\ i + Len(lit) - 1 <= Len(t)
    /\ SubSeq(t, i, i + Len(lit) - 1) = lit

ParseValue(t, i) ==
    CASE At(t, i) = "\"" -> ScanString(t, i + 1, <<>>)
      [] MatchLit(t, i, <<"t", "r", "u", "e">>) ->
            [ok |-> TRUE, val |-> PyBool(TRUE), next |-> i + 4]
      [] MatchLit(t, i, <<"f", "a", "l", "s", "e">>) ->
            [ok |-> TRUE, val |-> PyBool(FALSE), next |-> i + 5]
      [] MatchLit(t, i, <<"n", "u", "l", "l">>) ->
            [ok |-> TRUE, val |-> PyNone, next |-> i + 4]
      [] OTHER -> ParseNumber(t, i)

\* The members of an object; i is the place of a key's opening quote.
RECURSIVE ParseMembers(_, _, _)
ParseMembers(t, i, d) ==
    IF At(t, i) # "\"" THEN ObjFail
    ELSE LET key == ScanString(t, i + 1, <<>>)
         IN  IF ~key.ok THEN ObjFail
             ELSE LET c == SkipWs(t, key.next)
                  IN  IF At(t, c) # ":" THEN ObjFail
                      ELSE LET v == ParseValue(t, SkipWs(t, c + 1))
                           IN  IF ~v.ok THEN ObjFail
                               ELSE LET m == SkipWs(t, v.next)
                                        e == DictSet(d, key.val.s, v.val)
                                    IN  CASE At(t, m) = "," ->
                                               ParseMembers(t, SkipWs(t, m + 1), e)
                                          [] At(t, m) = "}" ->
                                               [ok |-> TRUE, d |-> e, next |-> m + 1]
                                          [] OTHER -> ObjFail

ParseObject(t, i) ==
    IF At(t, i) # "{" THEN ObjFail
    ELSE LET j == SkipWs(t, i + 1)
         IN  IF At(t, j) = "}" THEN [ok |-> TRUE, d |-> <<>>, next |-> j + 1]
             ELSE ParseMembers(t, j, <<>>)

\* json.load of a whole text: one object, then nothing but whitespace.
Loads(t) ==
    LET r == ParseObject(t, SkipWs(t, 1))
    IN  IF r.ok /\ SkipWs(t, r.next) = Len(t) + 1 THEN r ELSE ObjFail


(***************************************************************************)
(* int(args['<port>']) (line 117): surrounding blanks, an optional sign,   *)
(* then decimal digits; anything else is a ValueError.                     *)
(***************************************************************************)
RECURSIVE StripRight(_)
StripRight(s) ==
    IF s # <<>> /\ s[Len(s)] = " " THEN StripRight(SubSeq(s, 1, Len(s) - 1)) ELSE s

IntOf(s) ==
    LET i == SkipWs(s, 1)
        t == StripRight(SubSeq(s, i, Len(s)))
        signed == At(t, 1) \in {"-", "+"}
        j == IF signed THEN 2 ELSE 1
        r == ScanDigits(t, j, 0)
    IN  IF At(t, j) \in DigitSet /\ r.next = Len(t) + 1
        THEN [ok |-> TRUE, n |-> IF At(t, 1) = "-" THEN 0 - r.n ELSE r.n]
        ELSE [ok |-> FALSE, n |-> 0]

(***************************************************************************)
(* message.payload.decode() (line 103): strict UTF-8.  The result is the   *)
(* sequence of code points, or a UnicodeDecodeError.                       *)
(***************************************************************************)
ByteAt(b, i) == IF i >= 1 /\ i <= Len(b) THEN b[i] ELSE 0 - 1
IsCont(x) == x >= 128 /\ x <= 191

RECURSIVE Utf8Scan(_, _, _)
Utf8Scan(b, i, acc) ==
    LET b0 == ByteAt(b, i)
        b1 == ByteAt(b, i + 1)
        b2 == ByteAt(b, i + 2)
        b3 == ByteAt(b, i + 3)
        bad == [ok |-> FALSE, s |-> acc]
    IN  IF i > Len(b) THEN [ok |-> TRUE, s |-> acc]
        ELSE IF b0 < 128 THEN Utf8Scan(b, i + 1, Append(acc, b0))
        ELSE IF b0 >= 194 /\ b0 <= 223
             THEN IF IsCont(b1)
                  THEN Utf8Scan(b, i + 2, Append(acc, (b0 - 192) * 64 + (b1 - 128)))
                  ELSE bad
        ELSE IF b0 >= 224 /\ b0 <= 239
             THEN IF /\ b1 >= (IF b0 = 224 THEN 160 ELSE 128)
                     /\ b1 <= (IF b0 = 237 THEN 159 ELSE 191)
                     /\ IsCont(b2)
                  THEN Utf8Scan(b, i + 3,
                           Append(acc, (b0 - 224) * 4096 + (b1 - 128) * 64 + (b2 - 128)))
                  ELSE bad
        ELSE IF b0 >= 240 /\ b0 <= 244
             THEN IF /\ b1 >= (IF b0 = 240 THEN 144 ELSE 128)
                     /\ b1 <= (IF b0 = 244 THEN 143 ELSE 191)
                     /\ IsCont(b2) /\ IsCont(b3)
                  THEN Utf8Scan(b, i + 4,
                           Append(acc, (b0 - 240) * 262144 + (b1 - 128) * 4096
                                       + (b2 - 128) * 64 + (b3 - 128)))
                  ELSE bad
        ELSE bad

Utf8Decode(b) == Utf8Scan(b, 1, <<>>)

(***************************************************************************)
(* The state.                                                              *)
(***************************************************************************)
\* Processes: invocations of mqtt-cli.py that may run at the same time.
Procs == {1, 2}

VARIABLES
    fileExists,       \* os.path.exists(CONFIG_FILE)
    fileContent,      \* the text of CONFIG_FILE
    lastWriter,       \* history: the process whose write to CONFIG_FILE completed last
    pc,               \* per process: the statement it is at
    argv,             \* per process: the parsed arguments docopt hands to run
    config,           \* per process: the module global DEFAULT_CONFIG_SCHEMA
    startup,          \* per process: "created", "loaded", "unreadable" (or "" before)
    readText,         \* per process: the text json.load read from CONFIG_FILE
    prior,            \* history: the text of CONFIG_FILE when a set-* method was entered
    client,           \* per process: the paho client handle self.client
    calls,            \* per process: the connect/publish/subscribe calls made on it
    delivered,        \* per process: the messages handed to on_message, in order
    shown,            \* per process: the message lines on_message printed, in order
    interrupted,      \* per process: a KeyboardInterrupt was raised in view_messages' try
    exc,              \* per process: the exception that ended it ("" if none)
    exitCode,         \* per process: its exit status (-1 while it runs)
    reportedInvalid   \* per process: pr_err("Invalid command") was printed

fileVars == <<fileExists, fileContent, lastWriter>>
cfgVars == <<config, startup, readText, prior>>
cliVars == <<client, calls>>
viewVars == <<delivered, shown, interrupted>>
endVars == <<exc, exitCode, reportedInvalid>>
vars == <<fileVars, pc, argv, cfgVars, cliVars, viewVars, endVars>>

\* The messages a broker may deliver to view_messages (topic, payload bytes):
\* "21.5", "40" followed by U+00B0 in UTF-8, and a payload that is not UTF-8.
Messages ==
    { [topic |-> "sensors/temp", payload |-> <<50, 49, 46, 53>>],
      [topic |-> "sensors/humidity", payload |-> <<52, 48, 194, 176>>],
      [topic |-> "sensors/raw", payload |-> <<255>>] }

\* At most this many messages are delivered in one view_messages run.
MaxMsgs == 2

S_test_broker == <<"t", "e", "s", "t", ".", "b", "r", "o", "k", "e", "r", ".", "i", "o">>
S_8883 == <<"8", "8", "8", "3">>
S_topic == <<"s", "/", "t">>
S_message == <<"2", "1">>

SetCommands == {"set-mqtt-server", "set-credentials"}
SessionCommands == {"publish", "subscribe", "view-messages"}

\* The argument records run may be given.  "none" stands for arguments in
\* which none of the five command flags is set.
SetArgvs ==
    [cmd : {"set-mqtt-server"}, a1 : {S_test_broker}, a2 : {S_8883, <<"x">>}]
    \cup [cmd : {"set-credentials"}, a1 : {<<>>, <<"u">>}, a2 : {<<>>, <<"p", "\"">>}]
SessionArgvs ==
    [cmd : {"publish"}, a1 : {S_topic}, a2 : {S_message}]
    \cup [cmd : {"subscribe", "view-messages"}, a1 : {S_topic}, a2 : {<<>>}]
AllArgvs == SetArgvs \cup SessionArgvs \cup [cmd : {"none"}, a1 : {<<>>}, a2 : {<<>>}]
NoArgv == [cmd |-> "", a1 |-> <<>>, a2 |-> <<>>]

NoAuth == [set |-> FALSE, username |-> PyNone, password |-> PyNone]
NoClient == [made |-> FALSE, auth |-> NoAuth, connected |-> FALSE, loop |-> "none"]

\* Configuration files a user may have before the first run: one carrying
\* credentials, one with a username only, and one holding a single key.
CustomConfig ==
    DictSet(DictSet(DictSet(DefaultConfig, K_username, PyStr(<<"a">>)),
                    K_password, PyStr(<<"b">>)), K_client_id, PyStr(<<"c", "1">>))
UserOnlyConfig == DictSet(DefaultConfig, K_username, PyStr(<<"a">>))
PartialConfig == <<Item(K_server, PyStr(S_localhost))>>

InitLocals ==
    /\ pc = [p \in Procs |-> "idle"]
    /\ argv = [p \in Procs |-> NoArgv]
    /\ config = [p \in Procs |-> DefaultConfig]
    /\ startup = [p \in Procs |-> ""]
    /\ readText = [p \in Procs |-> <<>>]
    /\ prior = [p \in Procs |-> <<>>]
    /\ client = [p \in Procs |-> NoClient]
    /\ calls = [p \in Procs |-> <<>>]
    /\ delivered = [p \in Procs |-> <<>>]
    /\ shown = [p \in Procs |-> <<>>]
    /\ interrupted = [p \in Procs |-> FALSE]
    /\ exc = [p \in Procs |-> ""]
    /\ exitCode = [p \in Procs |-> 0 - 1]
    /\ reportedInvalid = [p \in Procs |-> FALSE]
    /\ lastWriter = 0

\* No file, or a file left by earlier runs or written by hand (the last two
\* are a partial record and an empty file).
Init ==
    /\ InitLocals
    /\ \/ fileExists = FALSE /\ fileContent = <<>>
       \/ /\ fileExists = TRUE
          /\ fileContent \in { Dumps(DefaultConfig), Dumps(CustomConfig),
                               Dumps(UserOnlyConfig), Dumps(PartialConfig), <<>> }

\* Two processes racing: no file, or a complete record.
InitRace ==
    /\ InitLocals
    /\ \/ fileExists = FALSE /\ fileContent = <<>>
       \/ /\ fileExists = TRUE
          /\ fileContent \in {Dumps(DefaultConfig), Dumps(CustomConfig)}

(***************************************************************************)
(* How a process ends.                                                     *)
(***************************************************************************)
\* An exception nobody catches: the traceback, exit status 1 (130 for the
\* KeyboardInterrupt).
Raise(p, e) ==
    /\ pc' = [pc EXCEPT ![p] = "exited"]
    /\ exc' = [exc EXCEPT ![p] = e]
    /\ exitCode' = [exitCode EXCEPT ![p] = IF e = "KeyboardInterrupt" THEN 130 ELSE 1]
    /\ UNCHANGED reportedInvalid

\* run returns and the script ends (line 130): exit status 0.
Return(p) ==
    /\ pc' = [pc EXCEPT ![p] = "exited"]
    /\ exitCode' = [exitCode EXCEPT ![p] = 0]
    /\ UNCHANGED <<exc, reportedInvalid>>

Goto(p, l) == pc' = [pc EXCEPT ![p] = l] /\ UNCHANGED endVars

(***************************************************************************)
(* The file: open(CONFIG_FILE, 'w') creates or truncates it; the text      *)
(* json.dump produced reaches it in one write at the descriptor's own      *)
(* offset, 0, when the with block closes the file.                         *)
(***************************************************************************)
WriteAt0(content, data) == data \o SubSeq(content, Len(data) + 1, Len(content))

OpenForWrite ==
    /\ fileExists' = TRUE
    /\ fileContent' = <<>>
    /\ UNCHANGED lastWriter

DumpAndClose(p) ==
    /\ fileContent' = WriteAt0(fileContent, Dumps(config[p]))
    /\ lastWriter' = p
    /\ UNCHANGED fileExists

(***************************************************************************)
(* Start of a process and the module-level code of lines 28-47.            *)
(***************************************************************************)
\* The script is started with some arguments.
Launch(p, argvs) ==
    /\ pc[p] = "idle"
    /\ \E a \in argvs : argv' = [argv EXCEPT ![p] = a]
    /\ Goto(p, "exists")
    /\ UNCHANGED <<fileVars, cfgVars, cliVars, viewVars>>

\* Line 40.
ConfigExists(p) ==
    /\ pc[p] = "exists"
    /\ Goto(p, IF fileExists THEN "load" ELSE "create_open")
    /\ UNCHANGED <<fileVars, argv, cfgVars, cliVars, viewVars>>

\* Lines 41-42.
CreateOpen(p) ==
    /\ pc[p] = "create_open"
    /\ OpenForWrite
    /\ Goto(p, "create_dump")
    /\ UNCHANGED <<argv, cfgVars, cliVars, viewVars>>

\* CreateDump without the json.dump: the file is created and left empty.
CreateDump_nodump(p) ==
    /\ pc[p] = "create_dump"
    /\ startup' = [startup EXCEPT ![p] = "created"]
    /\ Goto(p, "init")
    /\ UNCHANGED <<fileVars, argv, config, readText, prior, cliVars, viewVars>>

\* Line 43 and the end of the with block.
CreateDump(p) ==
    /\ pc[p] = "create_dump"
    /\ DumpAndClose(p)
    /\ startup' = [startup EXCEPT ![p] = "created"]
    /\ Goto(p, "init")
    /\ UNCHANGED <<argv, config, readText, prior, cliVars, viewVars>>

\* Lines 45-47: the loaded dict replaces the global whole.
Load(p) ==
    /\ pc[p] = "load"
    /\ readText' = [readText EXCEPT ![p] = fileContent]
    /\ LET r == Loads(fileContent)
       IN  IF r.ok
           THEN /\ config' = [config EXCEPT ![p] = r.d]
                /\ startup' = [startup EXCEPT ![p] = "loaded"]
                /\ Goto(p, "init")
           ELSE /\ startup' = [startup EXCEPT ![p] = "unreadable"]
                /\ Raise(p, "JSONDecodeError")
                /\ UNCHANGED config
    /\ UNCHANGED <<fileVars, argv, prior, cliVars, viewVars>>

(***************************************************************************)
(* MqttClient.__init__ (lines 50-57), called from MqttCli.__init__.        *)
(***************************************************************************)
InitKeys == {K_client_id, K_protocol, K_transport, K_userdata, K_clean_session,
             K_username, K_password}

\* CredentialsGiven with `or` for `and`.
CredentialsGiven_either(username, password) == Truthy(username) \/ Truthy(password)

\* Line 56.
CredentialsGiven(username, password) == Truthy(username) /\ Truthy(password)

ClientInit(p) ==
    /\ pc[p] = "init"
    /\ IF InitKeys \subseteq DictKeys(config[p])
       THEN LET u == DictGet(config[p], K_username)
                w == DictGet(config[p], K_password)
            IN  /\ client' = [client EXCEPT ![p] =
                       [made |-> TRUE,
                        auth |-> IF CredentialsGiven(u, w)
                                 THEN [set |-> TRUE, username |-> u, password |-> w]
                                 ELSE NoAuth,
                        connected |-> FALSE, loop |-> "none"]]
                /\ Goto(p, "run")
       ELSE /\ Raise(p, "KeyError")
            /\ UNCHANGED client
    /\ UNCHANGED <<fileVars, argv, cfgVars, calls, viewVars>>

(***************************************************************************)
(* set_mqtt_server (lines 59-64) and set_credentials (lines 66-71).        *)
(***************************************************************************)
\* SetServerConfig starting from the literal defaults instead of the loaded record.
SetServerConfig_fromDefaults(cfg, server, port) ==
    DictSet(DictSet(DefaultConfig, K_server, PyStr(server)), K_port, PyInt(port))

\* Lines 61-62.
SetServerConfig(cfg, server, port) ==
    DictSet(DictSet(cfg, K_server, PyStr(server)), K_port, PyInt(port))

\* Lines 68-69.
SetCredentialsConfig(cfg, username, password) ==
    DictSet(DictSet(cfg, K_username, PyStr(username)), K_password, PyStr(password))

\* Line 117 (the int() of the port argument) and lines 60-62.
run_set_mqtt_server(p) ==
    /\ pc[p] = "run"
    /\ argv[p].cmd = "set-mqtt-server"
    /\ LET port == IntOf(argv[p].a2)
       IN  IF port.ok
           THEN /\ config' = [config EXCEPT ![p] =
                                  SetServerConfig(config[p], argv[p].a1, port.n)]
                /\ prior' = [prior EXCEPT ![p] = fileContent]
                /\ Goto(p, "ss_open")
           ELSE /\ Raise(p, "ValueError")
                /\ UNCHANGED <<config, prior>>
    /\ UNCHANGED <<fileVars, argv, startup, readText, cliVars, viewVars>>

\* Line 63.
set_mqtt_server_open(p) ==
    /\ pc[p] = "ss_open"
    /\ OpenForWrite
    /\ Goto(p, "ss_dump")
    /\ UNCHANGED <<argv, cfgVars, cliVars, viewVars>>

\* Line 64 and the end of the with block; then run returns.
set_mqtt_server_dump(p) ==
    /\ pc[p] = "ss_dump"
    /\ DumpAndClose(p)
    /\ Return(p)
    /\ UNCHANGED <<argv, cfgVars, cliVars, viewVars>>

\* Line 119 and lines 67-69.
run_set_credentials(p) ==
    /\ pc[p] = "run"
    /\ argv[p].cmd = "set-credentials"
    /\ config' = [config EXCEPT ![p] =
                      SetCredentialsConfig(config[p], argv[p].a1, argv[p].a2)]
    /\ prior' = [prior EXCEPT ![p] = fileContent]
    /\ Goto(p, "sc_open")
    /\ UNCHANGED <<fileVars, argv, startup, readText, cliVars, viewVars>>

\* Line 70.
set_credentials_open(p) ==
    /\ pc[p] = "sc_open"
    /\ OpenForWrite
    /\ Goto(p, "sc_dump")
    /\ UNCHANGED <<argv, cfgVars, cliVars, viewVars>>

\* Line 71 and the end of the with block; then run returns.
set_credentials_dump(p) ==
    /\ pc[p] = "sc_dump"
    /\ DumpAndClose(p)
    /\ Return(p)
    /\ UNCHANGED <<argv, cfgVars, cliVars, viewVars>>

(***************************************************************************)
(* The calls on the paho client.  connect (lines 75, 81, 87) either        *)
(* returns or raises the socket's error; which one is the broker's doing.  *)
(***************************************************************************)
NoCall == [op |-> "", ok |-> TRUE, auth |-> FALSE, host |-> PyNone, port |-> PyNone,
           topic |-> <<>>, payload |-> <<>>, qos |-> 0, retain |-> FALSE]

ConnectCall(p, ok) ==
    [NoCall EXCEPT !.op = "connect", !.ok = ok, !.auth = client[p].auth.set,
                   !.host = DictGet(config[p], K_server),
                   !.port = DictGet(config[p], K_port)]

\* self.client.connect(DEFAULT_CONFIG_SCHEMA['server'], DEFAULT_CONFIG_SCHEMA['port'])
Connect(p, next) ==
    IF {K_server, K_port} \subseteq DictKeys(config[p])
    THEN \E ok \in BOOLEAN :
            /\ calls' = [calls EXCEPT ![p] = Append(@, ConnectCall(p, ok))]
            /\ IF ok
               THEN /\ client' = [client EXCEPT ![p].connected = TRUE]
                    /\ Goto(p, next)
               ELSE /\ Raise(p, "ConnectionError")
                    /\ UNCHANGED client
    ELSE /\ Raise(p, "KeyError")
         /\ UNCHANGED <<client, calls>>

\* publish_connect with the connect's error swallowed: publish goes on.
publish_connect_swallow(p) ==
    /\ pc[p] = "run"
    /\ argv[p].cmd = "publish"
    /\ \E ok \in BOOLEAN :
          /\ calls' = [calls EXCEPT ![p] = Append(@, ConnectCall(p, ok))]
          /\ client' = [client EXCEPT ![p].connected = ok]
    /\ Goto(p, "pub_publish")
    /\ UNCHANGED <<fileVars, argv, cfgVars, viewVars>>

\* Lines 121, 74-75.
publish_connect(p) ==
    /\ pc[p] = "run"
    /\ argv[p].cmd = "publish"
    /\ Connect(p, "pub_publish")
    /\ UNCHANGED <<fileVars, argv, cfgVars, viewVars>>

\* Lines 76-77, with the defaults qos=0, retain=False of line 73.
publish_publish(p) ==
    /\ pc[p] = "pub_publish"
    /\ calls' = [calls EXCEPT ![p] = Append(@,
                    [NoCall EXCEPT !.op = "publish", !.topic = argv[p].a1,
                                   !.payload = argv[p].a2])]
    /\ Return(p)
    /\ UNCHANGED <<fileVars, argv, cfgVars, client, viewVars>>

\* Lines 123, 80-81.
subscribe_connect(p) ==
    /\ pc[p] = "run"
    /\ argv[p].cmd = "subscribe"
    /\ Connect(p, "sub_subscribe")
    /\ UNCHANGED <<fileVars, argv, cfgVars, viewVars>>

\* subscribe_subscribe that also stores the topic in the configuration and saves it.
subscribe_subscribe_saves(p) ==
    /\ pc[p] = "sub_subscribe"
    /\ calls' = [calls EXCEPT ![p] = Append(@,
                    [NoCall EXCEPT !.op = "subscribe", !.topic = argv[p].a1])]
    /\ config' = [config EXCEPT ![p] =
                      DictSet(@, <<"t", "o", "p", "i", "c">>, PyStr(argv[p].a1))]
    /\ fileContent' = Dumps(config'[p])
    /\ Return(p)
    /\ UNCHANGED <<fileExists, lastWriter, argv, startup, readText, prior, client, viewVars>>

\* Lines 82-83.
subscribe_subscribe(p) ==
    /\ pc[p] = "sub_subscribe"
    /\ calls' = [calls EXCEPT ![p] = Append(@,
                    [NoCall EXCEPT !.op = "subscribe", !.topic = argv[p].a1])]
    /\ Return(p)
    /\ UNCHANGED <<fileVars, argv, cfgVars, client, viewVars>>

(***************************************************************************)
(* view_messages (lines 85-97) and on_message (lines 102-103).             *)
(***************************************************************************)
\* Lines 125, 86-87: the connect is made before the try block is entered.
view_connect(p) ==
    /\ pc[p] = "run"
    /\ argv[p].cmd = "view-messages"
    /\ Connect(p, "vm_subscribe")
    /\ UNCHANGED <<fileVars, argv, cfgVars, viewVars>>

\* Lines 89-91.
view_subscribe(p) ==
    /\ pc[p] = "vm_subscribe"
    /\ calls' = [calls EXCEPT ![p] = Append(@,
                    [NoCall EXCEPT !.op = "subscribe", !.topic = argv[p].a1])]
    /\ Goto(p, "vm_loop_start")
    /\ UNCHANGED <<fileVars, argv, cfgVars, client, viewVars>>

\* Line 92: the client's network thread starts.
view_loop_start(p) ==
    /\ pc[p] = "vm_loop_start"
    /\ client' = [client EXCEPT ![p].loop = "running"]
    /\ Goto(p, "vm_poll")
    /\ UNCHANGED <<fileVars, argv, cfgVars, calls, viewVars>>

\* Lines 93-94: one time.sleep(1) of the endless loop.
view_poll(p) ==
    /\ pc[p] = "vm_poll"
    /\ UNCHANGED vars

\* The line on_message prints for a message.
MessageLine(m) == [topic |-> m.topic, text |-> Utf8Decode(m.payload).s]

\* Lines 102-103, run by the network thread for a message the broker sends.
\* A payload that does not decode raises in the callback: nothing is
\* printed and the exception ends the network thread.
on_message(p) ==
    /\ client[p].loop = "running"
    /\ Len(delivered[p]) < MaxMsgs
    /\ \E m \in Messages :
          /\ delivered' = [delivered EXCEPT ![p] = Append(@, m)]
          /\ IF Utf8Decode(m.payload).ok
             THEN /\ shown' = [shown EXCEPT ![p] = Append(@, MessageLine(m))]
                  /\ UNCHANGED client
             ELSE /\ client' = [client EXCEPT ![p].loop = "dead"]
                  /\ UNCHANGED shown
    /\ UNCHANGED <<fileVars, pc, argv, cfgVars, calls, interrupted, endVars>>

\* Ctrl+C while publish, subscribe or view_messages is outside any try
\* block: the KeyboardInterrupt ends the process.
interrupt_outside_try(p) ==
    /\ \/ pc[p] = "run" /\ argv[p].cmd \in SessionCommands
       \/ pc[p] \in {"pub_publish", "sub_subscribe"}
    /\ Raise(p, "KeyboardInterrupt")
    /\ UNCHANGED <<fileVars, argv, cfgVars, cliVars, viewVars>>

\* Ctrl+C inside the try block of lines 88-94: control goes to line 95.
interrupt_in_try(p) ==
    /\ pc[p] \in {"vm_subscribe", "vm_loop_start", "vm_poll"}
    /\ interrupted' = [interrupted EXCEPT ![p] = TRUE]
    /\ Goto(p, "vm_except")
    /\ UNCHANGED <<fileVars, argv, cfgVars, cliVars, delivered, shown>>

\* LoopStop left out of the handler: the thread keeps running.
LoopStop_missing(loop) == loop

\* self.client.loop_stop(): a running network thread is told to end and joined.
LoopStop(loop) == IF loop = "running" THEN "stopped" ELSE loop

\* Lines 95-97; then view_messages and run return.
view_except(p) ==
    /\ pc[p] = "vm_except"
    /\ client' = [client EXCEPT ![p].loop = LoopStop(@)]
    /\ Return(p)
    /\ UNCHANGED <<fileVars, argv, cfgVars, calls, viewVars>>

\* Lines 126-127: no command flag is set; run prints the error and returns.
run_invalid(p) ==
    /\ pc[p] = "run"
    /\ argv[p].cmd = "none"
    /\ reportedInvalid' = [reportedInvalid EXCEPT ![p] = TRUE]
    /\ pc' = [pc EXCEPT ![p] = "exited"]
    /\ exitCode' = [exitCode EXCEPT ![p] = 0]
    /\ UNCHANGED <<fileVars, argv, cfgVars, cliVars, viewVars, exc>>

\* The process is gone; a later invocation starts from nothing but the file.
Restart(p) ==
    /\ pc[p] = "exited"
    /\ pc' = [pc EXCEPT ![p] = "idle"]
    /\ argv' = [argv EXCEPT ![p] = NoArgv]
    /\ config' = [config EXCEPT ![p] = DefaultConfig]
    /\ startup' = [startup EXCEPT ![p] = ""]
    /\ readText' = [readText EXCEPT ![p] = <<>>]
    /\ prior' = [prior EXCEPT ![p] = <<>>]
    /\ client' = [client EXCEPT ![p] = NoClient]
    /\ calls' = [calls EXCEPT ![p] = <<>>]
    /\ delivered' = [delivered EXCEPT ![p] = <<>>]
    /\ shown' = [shown EXCEPT ![p] = <<>>]
    /\ interrupted' = [interrupted EXCEPT ![p] = FALSE]
    /\ exc' = [exc EXCEPT ![p] = ""]
    /\ exitCode' = [exitCode EXCEPT ![p] = 0 - 1]
    /\ reportedInvalid' = [reportedInvalid EXCEPT ![p] = FALSE]
    /\ UNCHANGED fileVars

(***************************************************************************)
(* Specifications.                                                         *)
(***************************************************************************)
Startup(p) ==
    \/ ConfigExists(p) \/ CreateOpen(p) \/ CreateDump(p) \/ Load(p) \/ ClientInit(p)

SetSteps(p) ==
    \/ run_set_mqtt_server(p) \/ set_mqtt_server_open(p) \/ set_mqtt_server_dump(p)
    \/ run_set_credentials(p) \/ set_credentials_open(p) \/ set_credentials_dump(p)

SessionSteps(p) ==
    \/ publish_connect(p) \/ publish_publish(p)
    \/ subscribe_connect(p) \/ subscribe_subscribe(p)
    \/ view_connect(p) \/ view_subscribe(p) \/ view_loop_start(p) \/ view_poll(p)
    \/ on_message(p) \/ interrupt_outside_try(p) \/ interrupt_in_try(p)
    \/ view_except(p) \/ run_invalid(p)

\* One invocation at a time, one after the other, on the same file.
Next ==
    \/ Launch(1, AllArgvs)
    \/ Startup(1) \/ SetSteps(1) \/ SessionSteps(1)
    \/ Restart(1)

Spec == Init /\ [][Next]_vars

\* Two invocations of the set-* commands at the same time.
NextRace ==
    \E p \in Procs : Launch(p, SetArgvs) \/ Startup(p) \/ SetSteps(p)

SpecRace == InitRace /\ [][NextRace]_vars

(***************************************************************************)
(* The claims.                                                             *)
(***************************************************************************)
\* The documented defaults, field by field.
DocumentedDefaults(d) ==
    /\ DictKeys(d) = {K_server, K_port, K_client_id, K_clean_session, K_userdata,
                      K_username, K_password, K_protocol, K_transport}
    /\ DictGet(d, K_server) = PyStr(<<"l", "o", "c", "a", "l", "h", "o", "s", "t">>)
    /\ DictGet(d, K_port) = PyInt(1883)
    /\ DictGet(d, K_client_id) = PyStr(<<"m", "q", "t", "t", "-", "c", "l", "i">>)
    /\ DictGet(d, K_clean_session) = PyBool(TRUE)
    /\ DictGet(d, K_userdata) = PyNone
    /\ DictGet(d, K_username) = PyNone
    /\ DictGet(d, K_password) = PyNone
    /\ DictGet(d, K_protocol) = PyInt(4)
    /\ DictGet(d, K_transport) = PyStr(<<"t", "c", "p">>)

\* C1: when a process starts and finds no configuration file, the file it
\* creates decodes to exactly the documented defaults, and the configuration
\* it holds in memory is that same record: right after startup, and for the
\* whole run of every command that is not a set-* command.
DefaultCreation ==
    \A p \in {1} :
        (/\ startup[p] = "created"
         /\ pc[p] \in {"init", "run"} \/ argv[p].cmd \notin SetCommands)
        => /\ fileExists
           /\ Loads(fileContent).ok
           /\ DocumentedDefaults(Loads(fileContent).d)
           /\ config[p] = Loads(fileContent).d

\* A run that created the file and then published with the defaults.
DefaultCreationWitness ==
    /\ startup[1] = "created"
    /\ argv[1].cmd = "publish"
    /\ pc[1] = "exited"
    /\ exc[1] = ""

\* C2: after set_mqtt_server(server, port) has completed, a reload of the
\* file shows server and port equal to the arguments and every other field
\* (and the set of fields) as it was in the file when the call was made.
SetServerPartialOverwrite ==
    \A p \in {1} :
        (argv[p].cmd = "set-mqtt-server" /\ pc[p] = "exited" /\ exc[p] = "")
        => LET new == Loads(fileContent)
               old == Loads(prior[p])
           IN  /\ new.ok /\ old.ok
               /\ DictKeys(new.d) = DictKeys(old.d) \cup {K_server, K_port}
               /\ DictGet(new.d, K_server) = PyStr(argv[p].a1)
               /\ DictGet(new.d, K_port) = PyInt(IntOf(argv[p].a2).n)
               /\ \A k \in DictKeys(old.d) \ {K_server, K_port} :
                      DictGet(new.d, k) = DictGet(old.d, k)

\* set_mqtt_server completed on a file that carried credentials and a
\* client id of its own.
SetServerPartialOverwriteWitness ==
    /\ argv[1].cmd = "set-mqtt-server"
    /\ pc[1] = "exited"
    /\ exc[1] = ""
    /\ Loads(prior[1]).ok
    /\ DictGet(Loads(prior[1]).d, K_username) = PyStr(<<"a">>)
    /\ DictGet(Loads(fileContent).d, K_server) = PyStr(S_test_broker)

\* C3: in a run of publish, subscribe or view_messages, the client handle
\* carries credentials if and only if both username and password of the
\* loaded configuration are non-empty, and then those two; every connect is
\* issued on a handle in that state.
CredentialGating ==
    \A p \in {1} :
        (argv[p].cmd \in SessionCommands /\ client[p].made)
        => LET u == DictGet(config[p], K_username)
               w == DictGet(config[p], K_password)
               both == Truthy(u) /\ Truthy(w)
           IN  /\ client[p].auth.set <=> both
               /\ client[p].auth.set =>
                      client[p].auth.username = u /\ client[p].auth.password = w
               /\ \A i \in 1..Len(calls[p]) :
                      calls[p][i].op = "connect" => (calls[p][i].auth <=> both)

\* A connect was issued with a username set and no usable password: no
\* credentials on the handle.
CredentialGatingWitness ==
    /\ argv[1].cmd \in SessionCommands
    /\ calls[1] # <<>>
    /\ calls[1][1].op = "connect"
    /\ ~calls[1][1].auth
    /\ Truthy(DictGet(config[1], K_username))
    /\ ~Truthy(DictGet(config[1], K_password))

\* C4: in a run of publish, a publish call is only made after a connect that
\* returned; if the connect fails, the run ends with the connection error and
\* a non-zero exit status and no publish call is ever made.
PublishNeedsConnect ==
    \A p \in {1} :
        argv[p].cmd = "publish"
        => /\ \A i \in 1..Len(calls[p]) :
                  calls[p][i].op = "publish"
                  => \E j \in 1..(i - 1) : calls[p][j].op = "connect" /\ calls[p][j].ok
           /\ (\E i \in 1..Len(calls[p]) : calls[p][i].op = "connect" /\ ~calls[p][i].ok)
              => /\ pc[p] = "exited"
                 /\ exc[p] = "ConnectionError"
                 /\ exitCode[p] # 0
                 /\ \A i \in 1..Len(calls[p]) : calls[p][i].op # "publish"

\* A publish whose connect failed.
PublishNeedsConnectWitness ==
    /\ argv[1].cmd = "publish"
    /\ calls[1] # <<>>
    /\ ~calls[1][1].ok
    /\ exc[1] = "ConnectionError"

IsPrefix(s, t) == Len(s) <= Len(t) /\ s = SubSeq(t, 1, Len(s))

\* C6: the lines view_messages has displayed are always a prefix of the
\* messages delivered to on_message, in the same order, and when the
\* operation returns every delivered message has been displayed.
DisplayOrder ==
    \A p \in {1} :
        argv[p].cmd = "view-messages"
        => LET lines == [i \in 1..Len(delivered[p]) |-> MessageLine(delivered[p][i])]
           IN  /\ IsPrefix(shown[p], lines)
               /\ pc[p] = "exited" => shown[p] = lines

\* C7: once two processes that both loaded the configuration have finished
\* their set-* operations, the file holds exactly the in-memory record of the
\* one whose write completed last.
LastWriterWins ==
    (\A p \in Procs : pc[p] = "exited" /\ exc[p] = "" /\ startup[p] = "loaded")
    => fileContent = Dumps(config[lastWriter])

\* C8: whatever a process reads from the configuration file is a complete
\* record, never an empty or truncated text.
AtomicSave ==
    \A p \in Procs :
        startup[p] \in {"loaded", "unreadable"}
        => readText[p] # <<>> /\ Loads(readText[p]).ok

\* C9: when run is given arguments that select none of the five commands,
\* it reports the invalid command, makes no client call, and the process
\* exits with a non-zero status.
InvalidCommandExit ==
    \A p \in {1} :
        (argv[p].cmd = "none" /\ pc[p] = "exited" /\ exc[p] = "")
        => /\ reportedInvalid[p]
           /\ calls[p] = <<>>
           /\ exitCode[p] # 0

SessionPcs == {"pub_publish", "sub_subscribe", "vm_subscribe", "vm_loop_start",
               "vm_poll", "vm_except"}

\* C10: no step of publish, subscribe or view_messages (succeeding, failing
\* on connect, or interrupted) changes the in-memory configuration or the
\* configuration file.
SessionReadOnly ==
    [][\A p \in {1} :
          (/\ argv[p].cmd \in SessionCommands
           /\ pc[p] \in SessionPcs \cup {"run"})
          => /\ config'[p] = config[p]
             /\ fileContent' = fileContent
             /\ fileExists' = fileExists]_vars

\* view_messages ran to its end, interrupted, on a loaded configuration that
\* is not the default one, and the file still holds that configuration.
SessionReadOnlyWitness ==
    /\ argv[1].cmd = "view-messages"
    /\ pc[1] = "exited"
    /\ interrupted[1]
    /\ startup[1] = "loaded"
    /\ config[1] # DefaultConfig
    /\ fileContent = Dumps(config[1])
====
